---- MODULE Spec2Model ----
(***************************************************************************)
(* Model of src/codecs/webp/encoder.rs: the WebPQuality value type, the    *)
(* WebPEncoder constructors, and WebPEncoder::encode / write_image.        *)
(*                                                                         *)
(* The libwebp compressor and the io::Write sink are external: the         *)
(* compressor's output buffer and the sink's write results are inputs      *)
(* chosen nondeterministically by the Encode action.                       *)
(*                                                                         *)
(* Line 48 of the source spells the variant constructor `Quality::lossy`;  *)
(* the enum of lines 22-25 only has `Quality::Lossy`, which is what is     *)
(* modelled here.                                                          *)
(***************************************************************************)
EXTENDS Integers, Sequences, FiniteSets, TLC

(***************************************************************************)
(* Bounds of the model.                                                    *)
(***************************************************************************)
\* number of encoder values that can be constructed in one behaviour
MaxEncoders == 1
\* longest buffer the compressor returns
MaxOut == 2

(***************************************************************************)
(* Program constants.                                                      *)
(***************************************************************************)
\* WebPQuality::MIN
MIN == 0
\* WebPQuality::MAX
MAX == 100
\* WebPQuality::DEFAULT
DEFAULT == 80
\* largest value of the u8 parameter of WebPQuality::lossy
U8Max == 255
\* bits of an f32 significand (`quality as f32`)
F32MantissaBits == 24

\* every value of the u8 parameter
U8 == 0..U8Max
\* the levels the encoder specification passes to lossy
LevelInputs == {50, 80, 200}

EncoderIds == 1..MaxEncoders

\* the arguments of the encode calls tried: a 1x1 and a 2x1 pixel buffer, with
\* the two supported color types and two of the others of crate::ColorType
EncodeInputs ==
  { [data |-> <<255, 0, 0>>, width |-> 1, height |-> 1, color |-> "Rgb8"],
    [data |-> <<255, 0, 0, 255, 9, 9, 9, 255>>, width |-> 2, height |-> 1,
     color |-> "Rgba8"],
    [data |-> <<255, 0, 0>>, width |-> 1, height |-> 1, color |-> "L8"],
    [data |-> <<255, 0, 0, 255, 9, 9, 9, 255>>, width |-> 2, height |-> 1,
     color |-> "Rgb16"] }

\* the first bytes of a WebP container: "RIFF", a size, "WEBP"
RiffHeader == <<82, 73, 70, 70, 26, 0, 0, 0, 87, 69, 66, 80>>

\* the buffers encoder.encode / encode_lossless may return (WebPMemory): the
\* empty buffer and the nonempty ones up to MaxOut bytes, one of each length
CompressorOutputs == {SubSeq(RiffHeader, 1, n) : n \in 0..MaxOut}

(***************************************************************************)
(* Quality (lines 21-29): Lossless, or Lossy(u8).                          *)
(***************************************************************************)
Lossless == [tag |-> "Lossless"]
Lossy(level) == [tag |-> "Lossy", level |-> level]

NoQuality == [tag |-> "None"]

\* variant of Clamp: the bounds are not applied
Clamp_not_applied(x, lo, hi) == x

\* u8::clamp(self, min, max) of core::cmp::Ord
Clamp(x, lo, hi) == IF x < lo THEN lo ELSE IF x > hi THEN hi ELSE x

\* WebPQuality::lossless()
WebPQuality_lossless == Lossless

\* variant of WebPQuality_lossy: the argument is stored as given
WebPQuality_lossy_unclamped(quality) == Lossy(quality)

\* WebPQuality::lossy(quality)
WebPQuality_lossy(quality) == Lossy(Clamp(quality, MIN, MAX))

\* variant of WebPQuality_default: the default is the lossless variant
WebPQuality_default_lossless == Lossless

\* <WebPQuality as Default>::default()
WebPQuality_default == WebPQuality_lossy(DEFAULT)

(***************************************************************************)
(* `quality as f32`: the nearest f32, as significand * 2^exponent with an  *)
(* odd significand of at most F32MantissaBits bits.                        *)
(***************************************************************************)
RECURSIVE Pow2(_)
Pow2(n) == IF n = 0 THEN 1 ELSE 2 * Pow2(n - 1)

RECURSIVE Normalise(_, _)
Normalise(m, e) ==
  IF m = 0 THEN [m |-> 0, e |-> 0]
  ELSE IF m % 2 = 0 THEN Normalise(m \div 2, e + 1)
  ELSE [m |-> m, e |-> e]

RECURSIVE RoundToBits(_, _)
\* round-half-to-even of m * 2^e to F32MantissaBits significant bits
RoundToBits(m, e) ==
  IF m < Pow2(F32MantissaBits) THEN Normalise(m, e)
  ELSE LET half == m \div 2
           up   == (m % 2 = 1) /\ (half % 2 = 1)
       IN  RoundToBits(IF up THEN half + 1 ELSE half, e + 1)

U8AsF32(q) == RoundToBits(q, 0)

F32Value(f) == f.m * Pow2(f.e)

(***************************************************************************)
(* State.                                                                  *)
(***************************************************************************)
VARIABLES
  wq,      \* the WebPQuality value most recently constructed
  qcall,   \* the call that constructed it: [fn, arg]
  enc      \* the WebPEncoder values, by identity

vars == <<wq, qcall, enc>>

NoArgs == [data |-> <<>>, width |-> 0, height |-> 0, color |-> "None"]
NoRet == [kind |-> "None", detail |-> ""]
NoSink == [accept |-> -1, err |-> ""]

Unborn ==
  [ st      |-> "unborn",      \* unborn / configured / consumed
    ctor    |-> "none",        \* constructor that built it
    quality |-> NoQuality,     \* field `quality`
    inner   |-> <<>>,          \* bytes the sink `inner` received from this encoder
    q0      |-> NoQuality,     \* history: quality given at construction
    encodes |-> 0,             \* history: number of encode calls
    via     |-> "none",        \* history: entry point of the encode call
    args    |-> NoArgs,        \* history: arguments of the encode call
    calls   |-> <<>>,          \* history: compressor invocations
    encoded |-> <<>>,          \* history: buffer returned by the compressor
    sink    |-> NoSink,        \* history: what the sink did with write_all
    ret     |-> NoRet ]        \* history: how encode ended

Init ==
  /\ wq = NoQuality
  /\ qcall = [fn |-> "none", arg |-> 0]
  /\ enc = [e \in EncoderIds |-> Unborn]

(***************************************************************************)
(* WebPQuality constructors, as calls made by a client.                    *)
(***************************************************************************)
CallLossless ==
  /\ wq' = WebPQuality_lossless
  /\ qcall' = [fn |-> "lossless", arg |-> 0]
  /\ UNCHANGED enc

CallLossy(level) ==
  /\ wq' = WebPQuality_lossy(level)
  /\ qcall' = [fn |-> "lossy", arg |-> level]
  /\ UNCHANGED enc

CallDefault ==
  /\ wq' = WebPQuality_default
  /\ qcall' = [fn |-> "default", arg |-> 0]
  /\ UNCHANGED enc

(***************************************************************************)
(* WebPEncoder constructors (lines 59-69).                                 *)
(***************************************************************************)
\* WebPEncoder::new_with_quality(w, quality): Self { inner: w, quality }
WebPEncoder_new_with_quality(quality, ctor) ==
  [Unborn EXCEPT !.st = "configured", !.ctor = ctor,
                 !.quality = quality, !.q0 = quality]

\* WebPEncoder::new(w): new_with_quality(w, WebPQuality::default())
WebPEncoder_new ==
  WebPEncoder_new_with_quality(WebPQuality_default, "new")

New(e) ==
  /\ enc[e].st = "unborn"
  /\ enc' = [enc EXCEPT ![e] = WebPEncoder_new]
  /\ UNCHANGED <<wq, qcall>>

NewWithQuality(e) ==
  /\ enc[e].st = "unborn"
  /\ wq # NoQuality
  /\ enc' = [enc EXCEPT ![e] = WebPEncoder_new_with_quality(wq, "new_with_quality")]
  /\ UNCHANGED <<wq, qcall>>

(***************************************************************************)
(* The sink: io::Write::write_all(buf).  It returns Ok(()) once every byte *)
(* of buf has been accepted, in order; otherwise it returns the first      *)
(* error that is not Interrupted (WriteZero when a write accepts nothing), *)
(* the sink having accepted some proper prefix of buf.  How far the sink   *)
(* gets and how it fails is the sink's choice.                             *)
(***************************************************************************)
IoErrorKinds == {"WriteZero", "BrokenPipe"}

SinkBehaviours(buf) ==
  {[accept |-> Len(buf), err |-> ""]}
    \cup {[accept |-> k, err |-> x] : k \in 0..(Len(buf) - 1), x \in IoErrorKinds}

\* variant of WriteAll: one call of write(), whose short count is not looked at
WriteAll_single_write(buf, sink) ==
  [written |-> SubSeq(buf, 1, sink.accept),
   err |-> IF sink.accept > 0 THEN "" ELSE sink.err]

\* self.inner.write_all(&encoded)
WriteAll(buf, sink) ==
  [written |-> SubSeq(buf, 1, sink.accept), err |-> sink.err]

(***************************************************************************)
(* WebPEncoder::encode (lines 75-106).                                     *)
(***************************************************************************)
\* variant of PixelLayoutOf: every other color type is read as RGB
PixelLayoutOf_fallback_rgb(color) ==
  CASE color = "Rgba8" -> "Rgba"
    [] OTHER           -> "Rgb"

\* lines 83-87: the match on the color type
PixelLayoutOf(color) ==
  CASE color = "Rgb8"  -> "Rgb"
    [] color = "Rgba8" -> "Rgba"
    [] OTHER           -> "unimplemented"

NoF32 == [m |-> -1, e |-> 0]

\* variant of CompressorCall: width and height change places
CompressorCall_swapped(quality, data, layout, width, height) ==
  [ data |-> data, layout |-> layout, width |-> height, height |-> width,
    entry |-> IF quality.tag = "Lossless" THEN "encode_lossless" ELSE "encode",
    quality_factor |-> IF quality.tag = "Lossless" THEN NoF32
                       ELSE U8AsF32(quality.level) ]

\* lines 90-94: Encoder::new(data, layout, width, height) and the entry point
CompressorCall(quality, data, layout, width, height) ==
  [ data |-> data, layout |-> layout, width |-> width, height |-> height,
    entry |-> IF quality.tag = "Lossless" THEN "encode_lossless" ELSE "encode",
    quality_factor |-> IF quality.tag = "Lossless" THEN NoF32
                       ELSE U8AsF32(quality.level) ]

\* variant of IsEmpty: the result is not validated
IsEmpty_unchecked(encoded) == FALSE

\* line 97: encoded.is_empty()
IsEmpty(encoded) == Len(encoded) = 0

RetOk == [kind |-> "Ok", detail |-> ""]
\* lines 98-101: ImageError::Encoding(EncodingError::new(ImageFormat::WebP.into(), ..))
RetEncoding == [kind |-> "Encoding", detail |-> "WebP"]
\* variant of RetIoError: the sink's error is reported as an encoding error
RetIoError_as_encoding(err) == [kind |-> "Encoding", detail |-> "WebP"]
\* line 104: `?` turns the io::Error into ImageError::IoError
RetIoError(err) == [kind |-> "IoError", detail |-> err]
\* line 86: unimplemented!() unwinds out of encode
RetPanic == [kind |-> "Panic", detail |-> "not implemented: Color type not yet supported"]

\* the encoder value after encode(self, data, width, height, color), when the
\* compressor returns `out` and the sink behaves as `sink`
WebPEncoder_encode(self, via, data, width, height, color, out, sink) ==
  LET layout == PixelLayoutOf(color)
      taken  == [self EXCEPT !.st = "consumed", !.encodes = @ + 1, !.via = via,
                             !.args = [data |-> data, width |-> width,
                                       height |-> height, color |-> color]]
  IN  IF layout = "unimplemented" THEN [taken EXCEPT !.ret = RetPanic]
      ELSE LET call    == CompressorCall(self.quality, data, layout, width, height)
               encoded == out
               called  == [taken EXCEPT !.calls = Append(@, call),
                                        !.encoded = encoded]
           IN  IF IsEmpty(encoded) THEN [called EXCEPT !.ret = RetEncoding]
               ELSE LET w == WriteAll(encoded, sink)
                    IN  [called EXCEPT !.sink = sink,
                                       !.inner = @ \o w.written,
                                       !.ret = IF w.err = "" THEN RetOk
                                               ELSE RetIoError(w.err)]

\* variant of CanEncode: encode borrows the encoder (`&mut self`)
CanEncode_borrowed(self) == self.st # "unborn"

\* `mut self`: encode takes the encoder by value, so only a live encoder can
\* be passed to it
CanEncode(self) == self.st = "configured"

Encode(e) ==
  /\ CanEncode(enc[e])
  /\ \E inp \in EncodeInputs, out \in CompressorOutputs :
       \E sink \in SinkBehaviours(out) :
         enc' = [enc EXCEPT ![e] =
                   WebPEncoder_encode(enc[e], "encode", inp.data, inp.width,
                                      inp.height, inp.color, out, sink)]
  /\ UNCHANGED <<wq, qcall>>

\* ImageEncoder::write_image (lines 109-119): self.encode(buf, width, height, color_type)
WriteImage(e) ==
  /\ CanEncode(enc[e])
  /\ \E inp \in EncodeInputs, out \in CompressorOutputs :
       \E sink \in SinkBehaviours(out) :
         enc' = [enc EXCEPT ![e] =
                   WebPEncoder_encode(enc[e], "write_image", inp.data, inp.width,
                                      inp.height, inp.color, out, sink)]
  /\ UNCHANGED <<wq, qcall>>

(***************************************************************************)
(* Specifications.                                                         *)
(***************************************************************************)
Next ==
  \/ CallLossless
  \/ \E level \in LevelInputs : CallLossy(level)
  \/ CallDefault
  \/ \E e \in EncoderIds : New(e)
  \/ \E e \in EncoderIds : NewWithQuality(e)
  \/ \E e \in EncoderIds : Encode(e)
  \/ \E e \in EncoderIds : WriteImage(e)

Spec == Init /\ [][Next]_vars

\* the quality constructors alone, over every u8 argument
NextQuality ==
  \/ CallLossless
  \/ \E level \in U8 : CallLossy(level)
  \/ CallDefault

SpecQuality == Init /\ [][NextQuality]_vars

(***************************************************************************)
(* Properties.                                                             *)
(***************************************************************************)
Born == {e \in EncoderIds : enc[e].st # "unborn"}
Consumed == {e \in EncoderIds : enc[e].st = "consumed"}
Supported(color) == color \in {"Rgb8", "Rgba8"}
\* the encoders whose encode got as far as the compressor
Compressed == {e \in Consumed : enc[e].calls # <<>>}

Max2(a, b) == IF a > b THEN a ELSE b
Min2(a, b) == IF a < b THEN a ELSE b

\* C1: for every u8 level, lossy(level) yields a Lossy value whose level is
\* max(0, min(100, level)): above 100 it is 100, within [0,100] it is the
\* argument; the call always yields a value.
C1_LossyClamps ==
  qcall.fn = "lossy" =>
    /\ wq.tag = "Lossy"
    /\ wq.level = Max2(0, Min2(100, qcall.arg))
    /\ (qcall.arg > 100 => wq.level = 100)
    /\ (qcall.arg \in 0..100 => wq.level = qcall.arg)

C1_Witness == qcall.fn = "lossy" /\ qcall.arg = 255 /\ wq.tag = "Lossy"

C3_EmptyIsEncodingError ==
  \A e \in Compressed :
    enc[e].encoded = <<>> =>
      /\ enc[e].ret = [kind |-> "Encoding", detail |-> "WebP"]
      /\ enc[e].inner = <<>>
      /\ Len(enc[e].calls) = 1

C3_Witness ==
  \E e \in Compressed : enc[e].encoded = <<>> /\ enc[e].ret.kind = "Encoding"

\* C4: when encode returns Ok, the sink has received exactly the compressor's
\* buffer: the same bytes in the same order, once.
C4_OkWritesAll ==
  \A e \in Consumed :
    enc[e].ret.kind = "Ok" =>
      /\ Len(enc[e].calls) = 1
      /\ enc[e].encoded # <<>>
      /\ enc[e].inner = enc[e].encoded

C4_Witness ==
  \E e \in Consumed : enc[e].ret.kind = "Ok" /\ Len(enc[e].inner) = MaxOut

\* C5: when the sink fails the write of a nonempty compressor result, encode
\* returns the I/O error that carries the sink's error, neither Ok nor an
\* encoding error; an encoding error is returned only for an empty result.
C5_IoErrorDistinct ==
  \A e \in Consumed :
    /\ (enc[e].encoded # <<>> /\ enc[e].sink.err # "" =>
          enc[e].ret = [kind |-> "IoError", detail |-> enc[e].sink.err])
    /\ (enc[e].ret.kind = "Encoding" => e \in Compressed /\ enc[e].encoded = <<>>)

C5_Witness ==
  \E e \in Consumed :
    /\ enc[e].sink = [accept |-> 1, err |-> "BrokenPipe"]
    /\ enc[e].ret.kind = "IoError"
    /\ Len(enc[e].encoded) = 2

\* C6: an encoder is configured or consumed; every encode or write_image takes
\* it from configured to consumed whatever the outcome, nothing happens to a
\* consumed encoder, so each encoder encodes at most once and its sink gets
\* the output of at most one compression.
C6_StateInv ==
  \A e \in EncoderIds :
    /\ enc[e].st \in {"unborn", "configured", "consumed"}
    /\ (enc[e].st \in {"unborn", "configured"} =>
          enc[e].encodes = 0 /\ enc[e].calls = <<>> /\ enc[e].inner = <<>>)
    /\ (enc[e].st = "consumed" =>
          /\ enc[e].encodes = 1
          /\ Len(enc[e].calls) <= 1
          /\ \E k \in 0..Len(enc[e].encoded) :
               enc[e].inner = SubSeq(enc[e].encoded, 1, k))

C6_Step ==
  \A e \in EncoderIds :
    /\ (enc[e].st = "consumed" => enc'[e] = enc[e])
    /\ (enc'[e].encodes # enc[e].encodes =>
          enc[e].st = "configured" /\ enc'[e].st = "consumed")
    /\ (enc'[e].st = "configured" => enc[e].st \in {"unborn", "configured"})

C6_EncodeOnce == []C6_StateInv /\ [][C6_Step]_vars

C6_Witness ==
  \E e \in Consumed :
    enc[e].via = "write_image" /\ enc[e].ret.kind = "IoError" /\ enc[e].encodes = 1

\* C7: every WebPQuality value, and the quality of every encoder, is Lossless
\* or Lossy(level) with 0 <= level <= 100, and an encoder's quality is the one
\* it was constructed with.
ValidQuality(q) ==
  \/ q = [tag |-> "Lossless"]
  \/ q.tag = "Lossy" /\ q.level \in 0..100

C7_QualityInRange ==
  /\ (qcall.fn # "none" => ValidQuality(wq))
  /\ \A e \in Born : ValidQuality(enc[e].quality) /\ enc[e].quality = enc[e].q0

C7_Witness ==
  \E e \in Consumed :
    /\ enc[e].ctor = "new_with_quality"
    /\ enc[e].quality = [tag |-> "Lossy", level |-> 100]
    /\ qcall = [fn |-> "lossy", arg |-> 200]

\* C8: default() is the value lossy(80) yields, and an encoder built by new
\* holds it, dispatches to the lossy entry point with level 80, and ends as an
\* encoder built by new_with_quality(lossy(80)) ends on the same input.
SameRun(a, b) ==
  /\ a.args = b.args
  /\ a.encoded = b.encoded
  /\ a.sink = b.sink

C9_ConvertsInternally ==
  \A e \in Consumed :
    /\ enc[e].ret.kind # "Panic"
    /\ Len(enc[e].calls) = 1
    /\ enc[e].calls[1].layout \in {"Rgb", "Rgba"}

\* C10: for Rgb8/Rgba8 the compressor is called once, with the caller's
\* buffer, width and height, the layout Rgb for Rgb8 and Rgba for Rgba8, by
\* the lossless entry point iff the quality is Lossless and otherwise by the
\* lossy one with the stored level.
C10_Dispatch ==
  \A e \in Consumed :
    Supported(enc[e].args.color) =>
      /\ Len(enc[e].calls) = 1
      /\ LET c == enc[e].calls[1]
             a == enc[e].args
             q == enc[e].q0
         IN  /\ c.data = a.data
             /\ c.width = a.width
             /\ c.height = a.height
             /\ (a.color = "Rgb8" => c.layout = "Rgb")
             /\ (a.color = "Rgba8" => c.layout = "Rgba")
             /\ (c.entry = "encode_lossless" <=> q.tag = "Lossless")
             /\ (q.tag # "Lossless" =>
                   /\ q.tag = "Lossy"
                   /\ c.entry = "encode"
                   /\ F32Value(c.quality_factor) = q.level)

C10_Witness ==
  \E e \in Consumed :
    /\ enc[e].args.color = "Rgba8"
    /\ enc[e].q0.tag = "Lossless"
    /\ enc[e].calls[1].entry = "encode_lossless"
    /\ enc[e].calls[1].width = 2

====
